---- MODULE Spec2Model ----
(***************************************************************************)
(* A model of parsers/check_github_repos.py: the scan of an account's      *)
(* repositories for repostatus.org badge URLs.                             *)
(*                                                                         *)
(* File names are sequences of character codes (82 is "R", 10 a line       *)
(* feed), so that str.lower(), the sort key and readme_re act on them as   *)
(* in Python.  File texts are sequences of tokens, each token a run of     *)
(* characters that url_re can only take or leave as a whole ("http", ":",  *)
(* "/", "repostatus", ".", "svg", ..., "\n" for a line feed).              *)
(* Repository names are numbers, ordered as the names they stand for.      *)
(***************************************************************************)
EXTENDS Integers, Sequences, FiniteSets, TLC

VARIABLES
    pc,          \* position of the script
    args,        \* parse_args(): user, forks, format, fail_on_unknown
    calls,       \* kinds of GitHub API call made so far
    repos,       \* repositories yielded so far by `for repo in repos`
    nocand,      \* names of repositories whose root gave no candidate file
    touched,     \* names of repositories a get_contents() call was made on
    count,       \* check(): count
    forks,       \* check(): forks
    res,         \* check(): res, a dict in insertion order
    candidates,  \* check(): candidates / _find_status_for_files: flist
    fi,          \* _find_status_for_files: index of the file the loop is at
    fetched,     \* contents fetched by the running _find_status_for_files
    status,      \* value returned by _find_status_for_files
    total,       \* __main__: total
    unknown,     \* __main__: unknown
    output,      \* __main__: output, a dict in insertion order
    printed,     \* what was written to standard output
    logged,      \* kinds of message logged at level INFO or above
    error,       \* the exception that ended the run, "none" if none
    exitCode,    \* the process's exit code, -1 while it runs
    listing,     \* a root listing handed to _find_candidate_files
    text         \* a decoded file text handed to url_re.search

vars == <<pc, args, calls, repos, nocand, touched, count, forks, res,
          candidates, fi, fetched, status, total, unknown, output, printed,
          logged, error, exitCode, listing, text>>

(* Bounds of the model. *)
MaxRepos == 2
MaxEntries == 3
MaxChunks == 3

(***************************************************************************)
(* File names                                                              *)
(***************************************************************************)
N_README_md == <<82, 69, 65, 68, 77, 69, 46, 109, 100>>
N_readme == <<114, 101, 97, 100, 109, 101>>
N_Readme_txt == <<82, 101, 97, 100, 109, 101, 46, 116, 120, 116>>
N_README == <<82, 69, 65, 68, 77, 69>>
N_dot_repostatus_org == <<46, 114, 101, 112, 111, 115, 116, 97, 116, 117, 115, 46, 111, 114, 103>>
N_repostatus_org == <<114, 101, 112, 111, 115, 116, 97, 116, 117, 115, 46, 111, 114, 103>>
N_Repostatus_org == <<82, 101, 112, 111, 115, 116, 97, 116, 117, 115, 46, 111, 114, 103>>
N_LICENSE == <<76, 73, 67, 69, 78, 83, 69>>
N_docs == <<100, 111, 99, 115>>
\* "readme", a line feed, "x": git allows any byte but NUL and "/" in a name
N_readme_LF_x == <<114, 101, 97, 100, 109, 101, 10, 120>>

Names ==
    {N_README_md, N_readme, N_Readme_txt, N_README, N_dot_repostatus_org,
     N_repostatus_org, N_Repostatus_org, N_LICENSE, N_docs, N_readme_LF_x}

\* str.lower() on one character
LowerChar(c) == IF c >= 65 /\ c <= 90 THEN c + 32 ELSE c

\* str.lower()
Lower(s) == [i \in 1..Len(s) |-> LowerChar(s[i])]

\* Python's  a < b  on strings: lexicographic on the characters' codes
RECURSIVE StrLess(_, _)
StrLess(a, b) ==
    IF b = <<>> THEN FALSE
    ELSE IF a = <<>> THEN TRUE
    ELSE IF Head(a) # Head(b) THEN Head(a) < Head(b)
    ELSE StrLess(Tail(a), Tail(b))

\* readme_re = re.compile(r'^readme.*$', flags=re.I), used with .match():
\* "readme" in any case, then characters other than a line feed, up to the
\* end of the string or to a line feed that ends the string
readme_re_match(s) ==
    /\ Len(s) >= 6
    /\ Lower(SubSeq(s, 1, 6)) = N_readme
    /\ \E e \in {Len(s), Len(s) - 1} :
          /\ e >= 6
          /\ \A i \in 7..e : s[i] # 10
          /\ e = Len(s) - 1 => s[Len(s)] = 10

\* sorted(files, key=lambda x: x.lower()): a stable sort, elements with equal
\* keys keep the order they had
RECURSIVE InsertByLower(_, _)
InsertByLower(sorted, x) ==
    IF sorted = <<>> THEN <<x>>
    ELSE IF StrLess(Lower(x), Lower(Head(sorted)))
         THEN <<x>> \o sorted
         ELSE <<Head(sorted)>> \o InsertByLower(Tail(sorted), x)

RECURSIVE SortedByLower(_)
SortedByLower(files) ==
    IF files = <<>> THEN <<>>
    ELSE InsertByLower(SortedByLower(SubSeq(files, 1, Len(files) - 1)),
                       files[Len(files)])

IsFile(x) == x.type = "file"
IsReadme(fname) == readme_re_match(fname)
InSeq(x, s) == \E i \in 1..Len(s) : s[i] = x

\* RepoStatusOrg_GitHub_Checker._find_candidate_files, given what
\* repo.get_contents('/') returned
find_candidate_files(root) ==
    LET kept == SelectSeq(root, IsFile)
        files == [i \in 1..Len(kept) |-> kept[i].name]
        readmes == SelectSeq(SortedByLower(files), IsReadme)
    IN  readmes
        \o (IF InSeq(N_dot_repostatus_org, files) THEN <<N_dot_repostatus_org>> ELSE <<>>)
        \o (IF InSeq(N_repostatus_org, files) THEN <<N_repostatus_org>> ELSE <<>>)

(* Root listings: up to MaxEntries entries of distinct names. *)
EntryTypes == {"file", "dir"}
Entries == [name : Names, type : EntryTypes]
Listings ==
    {l \in UNION {[1..n -> Entries] : n \in 0..MaxEntries} :
        \A i, j \in 1..Len(l) : i # j => l[i].name # l[j].name}

(***************************************************************************)
(* File texts and url_re                                                   *)
(***************************************************************************)
Versions == {"1.1.0", "latest"}
Statuses == {"active", "wip"}
Schemes == {<<"http", "s">>, <<"http">>}

\* re.I on a token: the only tokens of the model that differ in case alone
LowerTok(t) ==
    CASE t = "HTTP" -> "http"
      [] t = "RepoStatus" -> "repostatus"
      [] OTHER -> t

\* A badge URL, e.g. https://www.repostatus.org/badges/1.1.0/active.svg
BadgeUrl(scheme, host, v, s) ==
    scheme \o <<":", "/", "/", "www", ".", host, ".", "org", "/", "badges", "/",
                v, "/", s, ".", "svg">>

IsNL(t) == t = "\n"

\* the tokens of t from i on match the literal lits, ignoring case
LitAt(t, i, lits) ==
    /\ i >= 1
    /\ i + Len(lits) - 1 <= Len(t)
    /\ \A k \in 1..Len(lits) : LowerTok(t[i + k - 1]) = lits[k]

\* the last position of the line that position u is on (u - 1 when t[u] is a
\* line feed or u is past the end): "." matches anything but a line feed
LineEnd(t, u) ==
    LET nls == {k \in u..Len(t) : IsNL(t[k])}
    IN  IF nls = {} THEN Len(t)
        ELSE (CHOOSE k \in nls : \A m \in nls : k <= m) - 1

\* http[s]?:\/\/ at p: the position after it, 0 if it does not match
SchemeEnd(t, p) ==
    IF LitAt(t, p, <<"http", "s", ":", "/", "/">>) THEN p + 5
    ELSE IF LitAt(t, p, <<"http", ":", "/", "/">>) THEN p + 4
    ELSE 0

BadgesLit == <<"repostatus", ".", "org", "/", "badges", "/">>
SvgLit == <<".", "svg">>

\* (.+)\/(.+)\.svg from u: the pairs <<e1, e2>> of last positions of the two
\* groups
GroupEnds(t, u) ==
    LET le == LineEnd(t, u)
        slashes == {e1 \in u..le : LitAt(t, e1 + 1, <<"/">>)}
        svgs == {e2 \in u..le : LitAt(t, e2 + 1, SvgLit)}
    IN  {e \in slashes \X svgs : e[2] >= e[1] + 2}

\* the positions r at which repostatus\.org\/badges\/ can follow .* from q with
\* the rest of the pattern matching after it
BadgeStarts(t, q) ==
    {r \in q..(LineEnd(t, q) + 1) :
        LitAt(t, r, BadgesLit) /\ GroupEnds(t, r + Len(BadgesLit)) # {}}

MatchAt(t, p) == SchemeEnd(t, p) # 0 /\ BadgeStarts(t, SchemeEnd(t, p)) # {}

SetMax(S) == CHOOSE x \in S : \A y \in S : y <= x
SetMin(S) == CHOOSE x \in S : \A y \in S : x <= y

None == [found |-> FALSE, version |-> <<>>, status |-> <<>>]

\* the groups of a match whose first group runs from u to e1 and whose second
\* runs to e2
Groups(t, u, e1, e2) ==
    [found |-> TRUE, version |-> SubSeq(t, u, e1), status |-> SubSeq(t, e1 + 2, e2)]

\* url_re.search(t) with
\* url_re = re.compile(r'http[s]?:\/\/.*repostatus\.org\/badges\/(.+)\/(.+)\.svg', flags=re.I)
\* and (res.group(1), res.group(2)) of the match: the leftmost start, and
\* from it every  .*  and  .+  as long as the rest of the pattern allows
\* (the first taking precedence)
url_re_search(t) ==
    LET starts == {p \in 1..Len(t) : MatchAt(t, p)}
    IN  IF starts = {} THEN None
        ELSE LET p == SetMin(starts)
                 r == SetMax(BadgeStarts(t, SchemeEnd(t, p)))
                 u == r + Len(BadgesLit)
                 e1 == SetMax({e[1] : e \in GroupEnds(t, u)})
                 e2 == SetMax({e[2] : e \in {x \in GroupEnds(t, u) : x[1] = e1}})
             IN  Groups(t, u, e1, e2)

(* File texts: up to MaxChunks chunks, each a badge URL or other text. *)
Chunks ==
    {BadgeUrl(<<"http", "s">>, "repostatus", "1.1.0", "active"),
     BadgeUrl(<<"HTTP">>, "RepoStatus", "latest", "wip"),
     <<"logo", ".", "svg">>,
     <<"text">>,
     <<"\n">>}

RECURSIVE Flatten(_)
Flatten(cs) == IF cs = <<>> THEN <<>> ELSE Head(cs) \o Flatten(Tail(cs))

Texts == {Flatten(cs) : cs \in UNION {[1..n -> Chunks] : n \in 0..MaxChunks}}

(***************************************************************************)
(* What the GitHub API answers in the scan                                 *)
(***************************************************************************)
File(n) == [name |-> n, type |-> "file"]
Dir(n) == [name |-> n, type |-> "dir"]

\* the root listings repo.get_contents('/') answers with in the scan
RootListings ==
    {<<>>,
     <<Dir(N_docs), File(N_LICENSE)>>,
     <<File(N_README_md)>>,
     <<File(N_dot_repostatus_org), File(N_Readme_txt), Dir(N_readme), File(N_README_md)>>}

BadgeText == BadgeUrl(<<"http", "s">>, "repostatus", "1.1.0", "active")
OtherBadgeText == BadgeUrl(<<"http">>, "repostatus", "latest", "wip")

\* the ContentFile objects repo.get_contents(f) answers with in the scan:
\* .encoding, and .content as the bytes it encodes ("<0xFF>" is a byte that is
\* not valid UTF-8)
FileContents ==
    {[encoding |-> "base64", content |-> <<"text", "\n">> \o BadgeText \o <<"\n">>],
     [encoding |-> "base64", content |-> OtherBadgeText],
     [encoding |-> "base64", content |-> <<"text", "\n">>],
     [encoding |-> "base64", content |-> <<"<0xFF>">>],
     [encoding |-> "none", content |-> BadgeText]}

\* bytes.decode() raises UnicodeDecodeError
Undecodable(c) == c.encoding = "base64" /\ InSeq("<0xFF>", c.content)

\* (Decoded, were the content searched whatever its encoding)
DecodedAnyEncoding(c) == c.content

\* lines 163-172: s, the text that is searched
Decoded(c) == IF c.encoding = "base64" THEN c.content ELSE <<>>

(***************************************************************************)
(* dict, in insertion order                                                *)
(***************************************************************************)
Keys(d) == {d[i].k : i \in 1..Len(d)}
Get(d, key) == (CHOOSE e \in {d[i] : i \in 1..Len(d)} : e.k = key).v
DictSet(d, key, val) ==
    IF key \in Keys(d)
    THEN [i \in 1..Len(d) |-> IF d[i].k = key THEN [k |-> key, v |-> val] ELSE d[i]]
    ELSE Append(d, [k |-> key, v |-> val])

\* sorted(output): the keys in ascending order
RECURSIVE SortedKeys(_)
SortedKeys(S) ==
    IF S = {} THEN <<>> ELSE <<SetMin(S)>> \o SortedKeys(S \ {SetMin(S)})

(***************************************************************************)
(* The script                                                              *)
(***************************************************************************)
\* parse_args(): -f, -o and -F (-u is drawn where check() reads it, -v only
\* sets the log level)
ArgSets ==
    [forks : BOOLEAN, format : {"text", "json", "html"}, fail_on_unknown : BOOLEAN]

\* nothing has run yet
Fresh ==
    /\ calls = {}
    /\ repos = <<>>
    /\ nocand = {}
    /\ touched = {}
    /\ count = 0
    /\ forks = 0
    /\ res = <<>>
    /\ candidates = <<>>
    /\ fi = 0
    /\ fetched = <<>>
    /\ status = None
    /\ total = 0
    /\ unknown = <<>>
    /\ output = <<>>
    /\ printed = <<>>
    /\ logged = {}
    /\ error = "none"
    /\ exitCode = -1

\* lines 274-275: the script starts, the arguments are parsed
Init ==
    /\ pc = "start"
    /\ args \in ArgSets
    /\ Fresh
    /\ listing = <<>>
    /\ text = <<>>

\* (Raise, were the exception caught around check() and the partial results
\* reported)
RaiseCaught(e) == pc' = "aggregate" /\ error' = e /\ exitCode' = exitCode

\* an exception nothing catches: the interpreter prints the traceback and
\* exits with code 1
Raise(e) == pc' = "crashed" /\ error' = e /\ exitCode' = 1

\* (TokenMissing, were the exit code left at 0)
TokenMissingExitZero ==
    /\ pc' = "no_token"
    /\ logged' = logged \cup {"error: no github token found"}
    /\ exitCode' = 0

\* lines 98-100: except subprocess.CalledProcessError
TokenMissing ==
    /\ pc' = "no_token"
    /\ logged' = logged \cup {"error: no github token found"}
    /\ exitCode' = 1

\* __init__, lines 93-100: git config --global github.token
GetToken ==
    /\ pc = "start"
    /\ \/ /\ pc' = "connect"
          /\ UNCHANGED <<logged, error, exitCode>>
       \/ /\ TokenMissing
          /\ UNCHANGED error
       \/ /\ Raise("OSError")
          /\ UNCHANGED logged
    /\ UNCHANGED <<args, calls, repos, nocand, touched, count, forks, res,
                   candidates, fi, fetched, status, total, unknown, output, printed,
                   listing, text>>

\* __init__, lines 101-102
Connect ==
    /\ pc = "connect"
    /\ calls' = calls \cup {"Github"}
    /\ pc' = "check"
    /\ UNCHANGED <<args, repos, nocand, touched, count, forks, res,
                   candidates, fi, fetched, status, total, unknown, output, printed,
                   logged, error, exitCode, listing, text>>

\* check(), lines 115-127: the account is looked up; github_user is None
\* (the caller's login is asked for first) or an account's name
StartCheck ==
    /\ pc = "check"
    /\ \E github_user \in {"None", "acct"} :
          \/ /\ calls' = calls \cup {"get_user"}
             /\ Raise("GithubException")
          \/ /\ \E type \in {"User", "Organization"} :
                   calls' = calls \cup {"get_user"}
                            \cup (IF type = "Organization" THEN {"get_organization"} ELSE {})
             /\ pc' = "loop"
             /\ UNCHANGED <<error, exitCode>>
    /\ UNCHANGED <<args, repos, nocand, touched, count, forks, res, candidates, fi,
                   fetched, status, total, unknown, output, printed, logged,
                   listing, text>>

\* line 128, for repo in repos: the paginated list yields the next
\* repository, fails to fetch its next page, or ends (lines 146-147)
IterRepos ==
    /\ pc = "loop"
    /\ \/ /\ Len(repos) < MaxRepos
          /\ \E fork \in BOOLEAN :
                repos' = Append(repos, [name |-> Len(repos) + 1, fork |-> fork])
          /\ calls' = calls \cup {"get_repos"}
          /\ pc' = "repo"
          /\ UNCHANGED <<error, exitCode>>
       \/ /\ calls' = calls \cup {"get_repos"}
          /\ Raise("GithubException")
          /\ UNCHANGED repos
       \/ /\ calls' = calls \cup {"get_repos"}
          /\ pc' = "aggregate"
          /\ UNCHANGED <<repos, error, exitCode>>
    /\ UNCHANGED <<args, nocand, touched, count, forks, res, candidates, fi,
                   fetched, status, total, unknown, output, printed, logged,
                   listing, text>>

Repo == repos[Len(repos)]

\* (IgnoresFork, were the flag read the wrong way round)
IgnoresForkInverted(fork, include_forks) == fork /\ include_forks

\* line 129
IgnoresFork(fork, include_forks) == fork /\ ~include_forks

\* lines 129-132
SkipFork ==
    /\ pc = "repo"
    /\ IgnoresFork(Repo.fork, args.forks)
    /\ forks' = forks + 1
    /\ pc' = "loop"
    /\ UNCHANGED <<args, calls, repos, nocand, touched, count, res,
                   candidates, fi, fetched, status, total, unknown, output, printed,
                   logged, error, exitCode, listing, text>>

\* lines 133-138, with _find_candidate_files
FindCandidates ==
    /\ pc = "repo"
    /\ ~IgnoresFork(Repo.fork, args.forks)
    /\ count' = count + 1
    /\ calls' = calls \cup {"get_contents"}
    /\ touched' = touched \cup {Repo.name}
    /\ fetched' = <<>>
    /\ status' = None
    /\ \/ /\ Raise("GithubException")
          /\ UNCHANGED <<nocand, candidates, fi>>
       \/ /\ \E root \in RootListings :
                candidates' = find_candidate_files(root)
          /\ nocand' = IF Len(candidates') = 0 THEN nocand \cup {Repo.name} ELSE nocand
          /\ IF Len(candidates') = 0
             THEN pc' = "loop" /\ fi' = 0
             ELSE pc' = "files" /\ fi' = 1
          /\ UNCHANGED <<error, exitCode>>
    /\ UNCHANGED <<args, repos, forks, res, total, unknown, output,
                   printed, logged, listing, text>>

\* (AfterSearch, were a match not returned at once)
AfterSearchNoEarlyReturn(m, i, n) ==
    IF i < n THEN "continue" ELSE IF m.found THEN "return match" ELSE "return None"

\* lines 161 and 174-177: what the loop does after searching file i of n
AfterSearch(m, i, n) ==
    IF m.found THEN "return match"
    ELSE IF i < n THEN "continue" ELSE "return None"

\* _find_status_for_files, one turn of the loop of lines 161-177
FetchFile ==
    /\ pc = "files"
    /\ calls' = calls \cup {"get_contents"}
    /\ touched' = touched \cup {Repo.name}
    /\ \/ /\ Raise("GithubException")
          /\ UNCHANGED <<fi, fetched, status, logged>>
       \/ \E c \in FileContents :
            /\ fetched' = Append(fetched, [path |-> candidates[fi], content |-> c])
            /\ logged' = IF c.encoding = "base64" THEN logged
                         ELSE logged \cup {"error: unknown encoding"}
            /\ IF Undecodable(c)
               THEN /\ Raise("UnicodeDecodeError")
                    /\ UNCHANGED <<fi, status>>
               ELSE LET m == url_re_search(Decoded(c))
                        next == AfterSearch(m, fi, Len(candidates))
                    IN  /\ fi' = IF next = "continue" THEN fi + 1 ELSE fi
                        /\ status' = IF next = "return match" THEN m ELSE None
                        /\ pc' = IF next = "continue" THEN "files" ELSE "store"
                        /\ UNCHANGED <<error, exitCode>>
    /\ UNCHANGED <<args, repos, nocand, count, forks, res, candidates,
                   total, unknown, output, printed, listing, text>>

\* lines 139-145: the value returned is stored
StoreStatus ==
    /\ pc = "store"
    /\ res' = DictSet(res, Repo.name, status)
    /\ pc' = "loop"
    \* the locals of the call that returned are dead from here on
    /\ candidates' = <<>>
    /\ fi' = 0
    /\ fetched' = <<>>
    /\ status' = None
    /\ UNCHANGED <<args, calls, repos, nocand, touched, count, forks,
                   total, unknown, output, printed, logged, error, exitCode,
                   listing, text>>

UNKNOWN == <<"UNKNOWN">>

\* lines 284-293, the loop over results (maxlen, which only pads the text
\* output, is left out)
RECURSIVE AggregateLoop(_, _)
AggregateLoop(results, acc) ==
    IF results = <<>> THEN acc
    ELSE LET e == Head(results)
             s == IF ~e.v.found THEN UNKNOWN ELSE e.v.status
         IN  AggregateLoop(Tail(results),
                 [total |-> acc.total + 1,
                  unknown |-> IF ~e.v.found THEN Append(acc.unknown, e.k) ELSE acc.unknown,
                  output |-> DictSet(acc.output, e.k, s)])

\* lines 279-293: check() has returned
Aggregate ==
    /\ pc = "aggregate"
    /\ LET a == AggregateLoop(res, [total |-> 0, unknown |-> <<>>, output |-> <<>>])
       IN  /\ total' = a.total
           /\ unknown' = a.unknown
           /\ output' = a.output
    /\ pc' = "render"
    /\ UNCHANGED <<args, calls, repos, nocand, touched, count, forks, res,
                   candidates, fi, fetched, status, printed, logged, error, exitCode,
                   listing, text>>

\* the rows of the text and HTML outputs: for repo in sorted(output)
SortedRows(out) ==
    LET ks == SortedKeys(Keys(out))
    IN  [i \in 1..Len(ks) |-> [k |-> ks[i], v |-> Get(out, ks[i])]]

\* lines 294-302
Render ==
    /\ pc = "render"
    /\ printed' =
         <<[format |-> args.format,
            rows |-> IF args.format = "json" THEN output ELSE SortedRows(output)]>>
    /\ pc' = "summary"
    /\ UNCHANGED <<args, calls, repos, nocand, touched, count, forks, res,
                   candidates, fi, fetched, status, total, unknown, output, logged,
                   error, exitCode, listing, text>>

\* lines 303-307
LogSummary ==
    /\ pc = "summary"
    /\ logged' = logged \cup {"info: found repos"}
                 \cup (IF Len(unknown) > 0 THEN {"info: unknown repos"} ELSE {})
    /\ pc' = "finish"
    /\ UNCHANGED <<args, calls, repos, nocand, touched, count, forks, res,
                   candidates, fi, fetched, status, total, unknown, output, printed,
                   error, exitCode, listing, text>>

\* lines 306-309 and the end of the script
Finish ==
    /\ pc = "finish"
    /\ exitCode' = IF Len(unknown) > 0 /\ args.fail_on_unknown THEN 1 ELSE 0
    /\ pc' = "exited"
    /\ UNCHANGED <<args, calls, repos, nocand, touched, count, forks, res,
                   candidates, fi, fetched, status, total, unknown, output, printed,
                   logged, error, listing, text>>

Next ==
    \/ GetToken
    \/ Connect
    \/ StartCheck
    \/ IterRepos
    \/ SkipFork
    \/ FindCandidates
    \/ FetchFile
    \/ StoreStatus
    \/ Aggregate
    \/ Render
    \/ LogSummary
    \/ Finish

Spec == Init /\ [][Next]_vars

(***************************************************************************)
(* _find_candidate_files on its own: any root listing                      *)
(***************************************************************************)
DefaultArgs == [forks |-> FALSE, format |-> "text", fail_on_unknown |-> FALSE]

InitCand ==
    /\ pc = "cand_in"
    /\ args = DefaultArgs
    /\ Fresh
    /\ listing \in Listings
    /\ text = <<>>

\* lines 189-203
ApplyCandidates ==
    /\ pc = "cand_in"
    /\ candidates' = find_candidate_files(listing)
    /\ pc' = "cand_out"
    /\ UNCHANGED <<args, calls, repos, nocand, touched, count, forks, res, fi,
                   fetched, status, total, unknown, output, printed, logged, error,
                   exitCode, listing, text>>

NextCand == ApplyCandidates

SpecCand == InitCand /\ [][NextCand]_vars

(***************************************************************************)
(* url_re.search on its own: any decoded text                              *)
(***************************************************************************)
InitMatch ==
    /\ pc = "match_in"
    /\ args = DefaultArgs
    /\ Fresh
    /\ listing = <<>>
    /\ text \in Texts

\* lines 173-177, for the text of one file
ApplySearch ==
    /\ pc = "match_in"
    /\ status' = url_re_search(text)
    /\ pc' = "match_out"
    /\ UNCHANGED <<args, calls, repos, nocand, touched, count, forks, res,
                   candidates, fi, fetched, total, unknown, output, printed, logged,
                   error, exitCode, listing, text>>

NextMatch == ApplySearch

SpecMatch == InitMatch /\ [][NextMatch]_vars

(***************************************************************************)
(* Properties                                                              *)
(***************************************************************************)
\* a repository the scan leaves out as a fork
Excluded(r) == r.fork /\ ~args.forks

\* repository i has been dealt with by the loop of check()
Passed(i) ==
    \/ i < Len(repos)
    \/ i = Len(repos) /\ pc \in {"loop", "aggregate", "render", "summary", "finish", "exited"}

ScanDone == pc \in {"render", "summary", "finish", "exited"}

HasStatus(name) == name \in Keys(res) /\ Get(res, name).found

EntriesOf(d, name) == {j \in 1..Len(d) : d[j].k = name}

\* the badge URLs http(s)://www.repostatus.org/badges/<v>/<s>.svg of a text,
\* each with the position it starts at
BadgeUrlsIn(t) ==
    {b \in [pos : 1..Len(t), v : Versions, s : Statuses] :
        \E sc \in Schemes : LitAt(t, b.pos, BadgeUrl(sc, "repostatus", b.v, b.s))}

PairOf(b) == [found |-> TRUE, version |-> <<b.v>>, status |-> <<b.s>>]

\* the text of a fetched file that can be read: the content when its encoding
\* is base64, nothing otherwise
ReadableText(c) == IF c.encoding = "base64" THEN c.content ELSE <<>>
HasBadge(c) == BadgeUrlsIn(ReadableText(c)) # {}

\* C1: once check() and the aggregation loop are done, every repository not
\* excluded as a fork has exactly one entry in the output, and a repository
\* whose root had no candidate file is there as UNKNOWN and in the unknown
\* list.
C1_EveryScannedRepoHasEntry ==
    ScanDone =>
        \A i \in 1..Len(repos) :
            ~Excluded(repos[i]) =>
                /\ Cardinality(EntriesOf(output, repos[i].name)) = 1
                /\ ~HasStatus(repos[i].name) =>
                      /\ Get(output, repos[i].name) = UNKNOWN
                      /\ InSeq(repos[i].name, unknown)

\* C2: no excluded fork is a key of res nor has its root or a file fetched;
\* every other repository the loop has dealt with, fork or not, had its root
\* fetched and is a key of res unless its root gave no candidate; the
\* counters tell the two kinds apart.
C2_ForksOnlyOnRequest ==
    /\ \A i \in 1..Len(repos) :
          Excluded(repos[i]) =>
              repos[i].name \notin Keys(res) /\ repos[i].name \notin touched
    /\ \A i \in 1..Len(repos) :
          (Passed(i) /\ ~Excluded(repos[i])) =>
              /\ repos[i].name \in touched
              /\ repos[i].name \in Keys(res) <=> repos[i].name \notin nocand
    /\ ScanDone =>
          /\ forks = Cardinality({i \in 1..Len(repos) : Excluded(repos[i])})
          /\ count = Cardinality({i \in 1..Len(repos) : ~Excluded(repos[i])})

\* a finished scan without -f that left a fork out and resolved another
\* repository
C2_Witness ==
    /\ pc = "exited"
    /\ ~args.forks
    /\ \E i, j \in 1..Len(repos) :
          /\ repos[i].fork
          /\ ~repos[j].fork
          /\ HasStatus(repos[j].name)

\* the name starts with "readme", in any case
StartsWithReadme(n) == Len(n) >= 6 /\ Lower(SubSeq(n, 1, 6)) = N_readme

\* C3: the candidates are names of files of the listing: every name that
\* starts with "readme" in any case, in ascending order of the lowercased
\* names, then ".repostatus.org" if it is there, then "repostatus.org" if it
\* is there.
C3_CandidatesAsSpecified ==
    pc = "cand_out" =>
        LET files == {listing[i].name : i \in {j \in 1..Len(listing) : listing[j].type = "file"}}
            readmes == {n \in files : StartsWithReadme(n)}
            k == Cardinality(readmes)
            dot == IF N_dot_repostatus_org \in files THEN 1 ELSE 0
            plain == IF N_repostatus_org \in files THEN 1 ELSE 0
        IN  /\ Len(candidates) = k + dot + plain
            /\ {candidates[i] : i \in 1..k} = readmes
            /\ \A i \in 1..(k - 1) :
                  ~StrLess(Lower(candidates[i + 1]), Lower(candidates[i]))
            /\ dot = 1 => candidates[k + 1] = N_dot_repostatus_org
            /\ plain = 1 => candidates[k + dot + 1] = N_repostatus_org

\* C4: the files are fetched in the order of the candidate list; none but the
\* last one fetched holds a badge URL; the loop goes on only past files
\* without one; a match returned is the badge of the last file fetched, and
\* None is returned only when every candidate was fetched and none held one.
C4_FirstMatchInListOrder ==
    pc \in {"files", "store"} =>
        LET n == Len(fetched)
        IN  /\ n <= Len(candidates)
            /\ \A k \in 1..n : fetched[k].path = candidates[k]
            /\ \A k \in 1..(n - 1) : ~HasBadge(fetched[k].content)
            /\ pc = "files" =>
                  /\ fi = n + 1
                  /\ n >= 1 => ~HasBadge(fetched[n].content)
            /\ (pc = "store" /\ status.found) =>
                  /\ n >= 1
                  /\ \E b \in BadgeUrlsIn(ReadableText(fetched[n].content)) :
                        status = PairOf(b)
            /\ (pc = "store" /\ ~status.found) =>
                  /\ n = Len(candidates)
                  /\ ~HasBadge(fetched[n].content)

\* the second of three candidates matched: the third was not fetched
C4_Witness ==
    /\ pc = "store"
    /\ status.found
    /\ Len(fetched) = 2
    /\ Len(candidates) = 3

\* C5: a fetched file whose encoding is not base64 never ends the run and
\* never yields a match: the loop goes on to the next candidate, or returns
\* None if it was the last; and what the resolver returns is stored and the
\* scan goes on with the next repository.
C5_UnknownEncodingIsNoMatch ==
    [][/\ (/\ pc = "files"
           /\ Len(fetched') = Len(fetched) + 1
           /\ fetched'[Len(fetched')].content.encoding # "base64") =>
              /\ error' = "none"
              /\ \/ fi < Len(candidates) /\ pc' = "files" /\ fi' = fi + 1
                 \/ fi = Len(candidates) /\ pc' = "store" /\ ~status'.found
       /\ pc = "store" => pc' = "loop"]_vars

\* a file of unknown encoding was passed over and a later candidate matched,
\* in the second repository of the scan
C5_Witness ==
    /\ pc = "store"
    /\ Len(repos) = 2
    /\ status.found
    /\ \E k \in 1..(Len(fetched) - 1) : fetched[k].content.encoding # "base64"

\* C6: a completed scan exits with 1 exactly when -F is set and a repository
\* that was not excluded has no status, and with 0 otherwise; the output and
\* the summary line come before the exit.
C6_ExitCodeAsSpecified ==
    pc = "exited" =>
        /\ exitCode \in {0, 1}
        /\ exitCode = 1 <=>
              /\ args.fail_on_unknown
              /\ \E i \in 1..Len(repos) :
                    ~Excluded(repos[i]) /\ ~HasStatus(repos[i].name)
        /\ printed # <<>>
        /\ "info: found repos" \in logged

\* C7: when the token cannot be read the process exits with 1, and no GitHub
\* API call was made and nothing was printed.
C7_NoTokenNoWork ==
    (pc = "no_token" \/ error = "OSError") =>
        /\ exitCode = 1
        /\ calls = {}
        /\ touched = {}
        /\ repos = <<>>
        /\ printed = <<>>

C7_Witness == pc = "no_token" /\ "error: no github token found" \in logged

\* C8: when the text holds a badge URL, the search returns the version and
\* the status of a badge URL of the text, and nothing else.
C8_PairOfABadgeUrl ==
    (pc = "match_out" /\ BadgeUrlsIn(text) # {}) =>
        \E b \in BadgeUrlsIn(text) : status = PairOf(b)

\* C9: when the text holds several badge URLs, the search returns the pair of
\* the first of them.
C9_FirstBadgeUrlOfText ==
    (pc = "match_out" /\ Cardinality(BadgeUrlsIn(text)) >= 2) =>
        \E b \in BadgeUrlsIn(text) :
            /\ \A c \in BadgeUrlsIn(text) : b.pos <= c.pos
            /\ status = PairOf(b)

\* C10: once a GitHub API call has failed the run is over and nothing was
\* aggregated or printed, whatever had been scanned before.
C10_ApiErrorEndsRunWithoutOutput ==
    error = "GithubException" =>
        /\ pc = "crashed"
        /\ output = <<>>
        /\ printed = <<>>

\* an API call failed after a repository had been scanned and stored
C10_Witness ==
    /\ pc = "crashed"
    /\ error = "GithubException"
    /\ res # <<>>

====
